---- MODULE Spec2Model ----
(***************************************************************************)
(* Per-identity rate limiter (package limiter, internal/limiter/limiter.go) *)
(*                                                                         *)
(* The state is the package's globals (the sync.Map registries, the mode,  *)
(* the redis handle), the content of the remote store, the wall clock and  *)
(* the position and locals of every goroutine that is inside RateLimit.    *)
(* One action is one atomic step of the code: an operation on a sync.Map,  *)
(* a clock read, a mutex acquisition, a critical section up to the         *)
(* deferred Unlock, one script execution on the store.                     *)
(*                                                                         *)
(* Time is in milliseconds.  Token amounts of the leaky bucket are float64  *)
(* values, computed with the roundings of IEEE 754 arithmetic.             *)
(***************************************************************************)
EXTENDS Integers, Sequences, FiniteSets, TLC

\* ------------------------------------------------------------------------
\* Program constants
\* ------------------------------------------------------------------------
\* cutoff := now - 1000 (memory sliding), oneSecondAgoMs := nowMs - 1000
WindowMs == 1000
\* redis.call("PEXPIRE", KEYS[1], 2000)
ExpireMs == 2000

\* ------------------------------------------------------------------------
\* Bounds of the model
\* ------------------------------------------------------------------------
\* the clock runs over the window boundaries k * WindowMs and the millisecond
\* before each, up to MaxWindows windows
MaxWindows == 2
\* number of calls of the package started in one behaviour (concurrent callers)
MaxCalls == 3
\* number of calls of the package started in one behaviour (one caller at a time)
MaxSeqCalls == 5
\* number of calls of the package started in one behaviour, where every function
\* of the package is called
MaxAnyCalls == 2
\* largest limit a caller passes or an override stores
MaxLimit == 3
\* largest limit configured where one limit holds for a whole behaviour
MaxFixed == 2
\* a goroutine reads at most MaxFrac + 1 distinct nanosecond values in one ms
MaxFrac == 1
\* number of calls of SetMode and GetMode started in one behaviour
MaxModeCalls == 4
\* number of members of a definition that LoadUserConfigFromJSON reads
MaxEntries == 2
\* number of calls of the package started in one behaviour that loads a definition
MaxLoadCalls == 4

Procs == {"p1", "p2"}
Users == {"a", "b"}
NoRef == "none"

Instants == {t \in {k * WindowMs + o : k \in 0..MaxWindows, o \in {-1, 0}} : t >= 0}
\* the window boundaries alone
Boundaries == {k * WindowMs : k \in 0..MaxWindows}


VARIABLES
    clock,          \* wall clock, ms (time.Now().UnixMilli() reads it)
    globalMode,     \* globalMode
    userConfig,     \* userConfig   : userID -> configured limit
    rdb,            \* rdb # nil
    userBuckets,    \* userBuckets  : userID -> *sync.Mutex
    userSlices,     \* userSlices   : userID -> *[]int64
    leakyBuckets,   \* leakyBuckets : userID -> *leakyState
    rateKeys,       \* remote store, sorted sets "rate:"+userID
    bucketKeys,     \* remote store, hashes "bucket:"+userID
    storeUp,        \* whether the remote store answers
    proc,           \* per goroutine: position and locals inside RateLimit
    hist,           \* history: per identity, the decisions taken, in their order
    calls           \* history: number of calls of the package's functions started

vars == <<clock, globalMode, userConfig, rdb, userBuckets, userSlices, leakyBuckets,
          rateKeys, bucketKeys, storeUp, proc, hist, calls>>

localVars == <<userBuckets, userSlices, leakyBuckets>>
remoteVars == <<rateKeys, bucketKeys>>

\* ------------------------------------------------------------------------
\* Helpers
\* ------------------------------------------------------------------------
EmptyMap == [x \in {} |-> 0]

\* m[k] := v
Put(m, k, v) == [x \in DOMAIN m \cup {k} |-> IF x = k THEN v ELSE m[x]]

\* delete m[k]
Del(m, k) == [x \in DOMAIN m \ {k} |-> m[x]]

\* sync.Map.LoadOrStore: the stored value stays when the key is present
\* mutant: the value is stored even when the key is present
StoreAlways(m, k, v) == Put(m, k, v)

LoadOrStore(m, k, v) == IF k \in DOMAIN m THEN m ELSE Put(m, k, v)

Min(x, y) == IF x <= y THEN x ELSE y

Max(x, y) == IF x >= y THEN x ELSE y

\* a goroutine outside RateLimit.  lastNs is the last value its nanosecond clock
\* gave it, as <<millisecond, nanoseconds within it>>.
Idle == [pc |-> "idle", userID |-> "a", limit |-> 0, cfg |-> 0, mode |-> "sliding",
         now |-> 0, nowNs |-> <<-1, 0>>, mtx |-> NoRef, tsSlice |-> NoRef, st |-> NoRef,
         err |-> FALSE, ret |-> FALSE]

Returned(p) == proc[p].pc = "done"

\* p returns b: its locals are gone, the caller holds the result
Return(p, b) ==
    [Idle EXCEPT !.pc = "done", !.userID = proc[p].userID, !.limit = proc[p].limit,
                 !.nowNs = proc[p].nowNs, !.err = proc[p].err, !.ret = b]

\* history: p's call is decided now, with result b
Decided(p, b) ==
    [hist EXCEPT ![proc[p].userID] =
        Append(@, [now |-> proc[p].now, at |-> clock, limit |-> proc[p].limit, ret |-> b])]

Init ==
    /\ clock = 0
    /\ globalMode = "sliding"
    /\ userConfig = EmptyMap
    /\ rdb = FALSE
    /\ userBuckets = EmptyMap
    /\ userSlices = EmptyMap
    /\ leakyBuckets = EmptyMap
    /\ rateKeys = EmptyMap
    /\ bucketKeys = EmptyMap
    /\ storeUp = TRUE
    /\ proc = [p \in Procs |-> Idle]
    /\ hist = [u \in Users |-> <<>>]
    /\ calls = 0

\* ------------------------------------------------------------------------
\* Environment: time and the remote store
\* ------------------------------------------------------------------------
\* mutant: keys do not expire
ExpireNever(keys, t) == keys

\* a key of the store whose expiry time has come is gone
Expire(keys, t) == [k \in {x \in DOMAIN keys : keys[x].expireAt > t} |-> keys[k]]

\* the clock moves to a later instant of T
Tick(T) ==
    /\ \E t \in T :
        /\ t > clock
        /\ clock' = t
        /\ rateKeys' = Expire(rateKeys, t)
        /\ bucketKeys' = Expire(bucketKeys, t)
    /\ UNCHANGED <<globalMode, userConfig, rdb, localVars, storeUp, proc, hist, calls>>

\* the remote store becomes unreachable, or reachable again
StoreFlip ==
    /\ storeUp' = ~storeUp
    /\ UNCHANGED <<clock, globalMode, userConfig, rdb, localVars, remoteVars, proc, hist,
                   calls>>

\* ------------------------------------------------------------------------
\* Mode, configuration, redis handle
\* ------------------------------------------------------------------------
\* mutant: the mode is stored without the check
ModeAfterUnchecked(mode) == mode

\* if mode == "sliding" || mode == "leaky" { globalMode = mode }
ModeAfter(mode) == IF mode = "sliding" \/ mode = "leaky" THEN mode ELSE globalMode

SetMode(mode) ==
    /\ globalMode' = ModeAfter(mode)
    /\ calls' = calls + 1
    /\ UNCHANGED <<clock, userConfig, rdb, localVars, remoteVars, storeUp, proc, hist>>

GetMode == globalMode

\* goroutine p calls SetMode(mode); globalModeMu makes the call one atomic step.
\* The record of p keeps the argument.
SetModeBy(p, mode) ==
    /\ proc[p].pc \in {"idle", "set", "got"}
    /\ globalMode' = ModeAfter(mode)
    /\ proc' = [proc EXCEPT ![p] = [Idle EXCEPT !.pc = "set", !.mode = mode]]
    /\ calls' = calls + 1
    /\ UNCHANGED <<clock, userConfig, rdb, localVars, remoteVars, storeUp, hist>>

\* goroutine p calls GetMode(); the record of p keeps the result
GetModeBy(p) ==
    /\ proc[p].pc \in {"idle", "set", "got"}
    /\ proc' = [proc EXCEPT ![p] = [Idle EXCEPT !.pc = "got", !.mode = GetMode]]
    /\ calls' = calls + 1
    /\ UNCHANGED <<clock, globalMode, userConfig, rdb, localVars, remoteVars, storeUp, hist>>

SetUserLimit(userID, limit) ==
    /\ userConfig' = Put(userConfig, userID, limit)
    /\ calls' = calls + 1
    /\ UNCHANGED <<clock, globalMode, rdb, localVars, remoteVars, storeUp, proc, hist>>

\* GetUserLimit: <<v, ok>>
GetUserLimit(userID) ==
    IF userID \in DOMAIN userConfig THEN <<userConfig[userID], TRUE>> ELSE <<0, FALSE>>

InitRedis ==
    /\ rdb' = TRUE
    /\ calls' = calls + 1
    /\ UNCHANGED <<clock, globalMode, userConfig, localVars, remoteVars, storeUp, proc, hist>>

\* ------------------------------------------------------------------------
\* LoadUserConfigFromJSON
\* ------------------------------------------------------------------------
\* the goroutine that loads a definition; its record in proc holds the error
\* it returns, the entries the loop still has to apply and, as history, what
\* json.Unmarshal left in cfg and the overrides at the moment of the call
Loader == "loader"

LoaderIdle == [pc |-> "ld_idle", err |-> FALSE, pending |-> EmptyMap, cfg |-> EmptyMap,
               before |-> EmptyMap]

\* json.Unmarshal(data, &cfg) on the members of a well-formed object, left to
\* right: a later member with the same name replaces the earlier one, and a
\* value that is not an int leaves the zero value under its name and makes the
\* call return an error after the whole object has been read
RECURSIVE Decode(_)
Decode(entries) ==
    IF entries = <<>>
    THEN [cfg |-> EmptyMap, err |-> FALSE]
    ELSE LET n == Len(entries)
             e == entries[n]
             d == Decode(SubSeq(entries, 1, n - 1))
         IN  [cfg |-> Put(d.cfg, e.user, IF e.isInt THEN e.limit ELSE 0),
              err |-> d.err \/ ~e.isInt]

\* json.Unmarshal: a syntax error is found before anything is decoded
Unmarshal(src) ==
    IF src.wellFormed THEN Decode(src.entries) ELSE [cfg |-> EmptyMap, err |-> TRUE]

\* os.ReadFile or json.Unmarshal returned an error
LoadFails(src) == ~src.readable \/ Unmarshal(src).err

\* mutant: the error of json.Unmarshal is returned only after the loop
ToApplyDecoded(src) == IF src.readable THEN Unmarshal(src).cfg ELSE EmptyMap

\* the map the loop ranges over; the function has returned before the loop
\* when reading or parsing failed
ToApply(src) == IF LoadFails(src) THEN EmptyMap ELSE Unmarshal(src).cfg

\* LoadUserConfigFromJSON(path) up to the loop
LoadUserConfigFromJSON(src) ==
    /\ proc[Loader].pc = "ld_idle"
    /\ calls' = calls + 1
    /\ proc' = [proc EXCEPT ![Loader] =
            [pc |-> IF ToApply(src) = EmptyMap THEN "ld_done" ELSE "ld_range",
             err |-> LoadFails(src), pending |-> ToApply(src),
             cfg |-> IF src.readable THEN Unmarshal(src).cfg ELSE EmptyMap,
             before |-> userConfig]]
    /\ UNCHANGED <<clock, globalMode, userConfig, rdb, localVars, remoteVars, storeUp, hist>>

\* one iteration of  for user, limit := range cfg { SetUserLimit(user, limit) },
\* in the order the map iteration happens to take
LoadRange ==
    /\ proc[Loader].pc = "ld_range"
    /\ \E user \in DOMAIN proc[Loader].pending :
         LET rest == Del(proc[Loader].pending, user)
         IN  /\ userConfig' = Put(userConfig, user, proc[Loader].pending[user])
             /\ proc' = [proc EXCEPT ![Loader].pending = rest,
                                     ![Loader].pc = IF rest = EmptyMap THEN "ld_done"
                                                    ELSE "ld_range"]
    /\ UNCHANGED <<clock, globalMode, rdb, localVars, remoteVars, storeUp, hist, calls>>

\* ------------------------------------------------------------------------
\* Facade: RateLimit
\* ------------------------------------------------------------------------
\* mutant: only a negative limit is refused
NegativeOnly(limit) == limit < 0

\* if limit <= 0 { return false }
NonPositive(limit) == limit <= 0

\* mutant: the override is not looked up
EffectiveLimitDefault(userID, limit) == limit

\* if cfg, ok := GetUserLimit(userID); ok && cfg > 0 { limit = cfg }
EffectiveLimit(userID, limit) ==
    LET cfg == GetUserLimit(userID)[1]
        ok == GetUserLimit(userID)[2]
    IN  IF ok /\ cfg > 0 THEN cfg ELSE limit

\* mutant: the sliding implementations are used whatever the mode
BackendSlidingOnly(mode) == IF rdb THEN "rs_now" ELSE "sl_mutex"

\* the implementation RateLimit hands the call to
Backend(mode) ==
    IF rdb
    THEN (IF mode = "leaky" THEN "rl_now" ELSE "rs_now")
    ELSE (IF mode = "leaky" THEN "lk_new" ELSE "sl_mutex")

\* RateLimit(userID, limit) up to the call of the chosen implementation.  The
\* reads of userConfig, globalMode and rdb are reads of three independent globals.
RateLimit(p, userID, limit) ==
    /\ proc[p].pc \in {"idle", "done"}
    /\ calls' = calls + 1
    /\ proc' = [proc EXCEPT ![p] =
            IF NonPositive(limit)
            THEN [Idle EXCEPT !.pc = "done", !.userID = userID, !.limit = limit,
                              !.nowNs = proc[p].nowNs, !.ret = FALSE]
            ELSE [Idle EXCEPT !.pc = Backend(GetMode), !.userID = userID,
                              !.limit = EffectiveLimit(userID, limit),
                              !.cfg = GetUserLimit(userID)[1],
                              !.nowNs = proc[p].nowNs, !.mode = GetMode]]
    /\ UNCHANGED <<clock, globalMode, userConfig, rdb, localVars, remoteVars, storeUp, hist>>

\* ------------------------------------------------------------------------
\* Sliding window, in memory: rateLimitMemorySliding
\* ------------------------------------------------------------------------
\* val, _ := userBuckets.LoadOrStore(userID, &sync.Mutex{})
SlidingLoadMutex(p) ==
    /\ proc[p].pc = "sl_mutex"
    /\ userBuckets' = LoadOrStore(userBuckets, proc[p].userID, [ref |-> p, locked |-> FALSE])
    /\ proc' = [proc EXCEPT ![p].pc = "sl_slice", ![p].mtx = userBuckets'[proc[p].userID].ref]
    /\ UNCHANGED <<clock, globalMode, userConfig, rdb, userSlices, leakyBuckets, remoteVars,
                   storeUp, hist, calls>>

\* rawSlice, _ := userSlices.LoadOrStore(userID, &[]int64{})
SlidingLoadSlice(p) ==
    /\ proc[p].pc = "sl_slice"
    /\ userSlices' = LoadOrStore(userSlices, proc[p].userID, [ref |-> p, ts |-> <<>>])
    /\ proc' = [proc EXCEPT ![p].pc = "sl_now", ![p].tsSlice = userSlices'[proc[p].userID].ref]
    /\ UNCHANGED <<clock, globalMode, userConfig, rdb, userBuckets, leakyBuckets, remoteVars,
                   storeUp, hist, calls>>

\* now := time.Now().UnixMilli()
SlidingReadClock(p) ==
    /\ proc[p].pc = "sl_now"
    /\ proc' = [proc EXCEPT ![p].pc = "sl_lock", ![p].now = clock]
    /\ UNCHANGED <<clock, globalMode, userConfig, rdb, localVars, remoteVars, storeUp, hist,
                   calls>>

\* mutant: the deferred Unlock is left out
UnlockSkipped(m) == m

\* defer mtx.Unlock(), defer st.mtx.Unlock(): the mutex m when the call returns
Unlocked(m) == [m EXCEPT !.locked = FALSE]

\* mutant: Lock returns although the mutex is held
LockNeverWaits(m) == TRUE

\* Lock returns only when the mutex m is not held
CanLock(m) == ~m.locked

\* mtx.Lock(): blocks while the mutex is held
SlidingLock(p) ==
    /\ proc[p].pc = "sl_lock"
    /\ userBuckets[proc[p].userID].ref = proc[p].mtx
    /\ CanLock(userBuckets[proc[p].userID])
    /\ userBuckets' = [userBuckets EXCEPT ![proc[p].userID].locked = TRUE]
    /\ proc' = [proc EXCEPT ![p].pc = "sl_crit"]
    /\ UNCHANGED <<clock, globalMode, userConfig, rdb, userSlices, leakyBuckets, remoteVars,
                   storeUp, hist, calls>>

\* mutant: a timestamp that is exactly one window old is kept
PruneKeepsBoundary(ts, cutoff) == SelectSeq(ts, LAMBDA t : t >= cutoff)

\* the timestamps newer than the cutoff, in their order
Prune(ts, cutoff) == SelectSeq(ts, LAMBDA t : t > cutoff)

\* mutant: the comparison is off by one
SlidingFullOffByOne(newSlice, limit) == Len(newSlice) > limit

\* if len(newSlice) >= limit { deny }
SlidingFull(newSlice, limit) == Len(newSlice) >= limit

\* mutant: the limit of the first decision for the identity stays in force
SlidingLimitOfFirst(p) ==
    IF hist[proc[p].userID] # <<>> THEN hist[proc[p].userID][1].limit ELSE proc[p].limit

\* the parameter limit of rateLimitMemorySliding
SlidingLimit(p) == proc[p].limit

\* the critical section and the deferred mtx.Unlock()
SlidingDecide(p) ==
    /\ proc[p].pc = "sl_crit"
    /\ LET u == proc[p].userID
           newSlice == Prune(userSlices[u].ts, proc[p].now - WindowMs)
           deny == SlidingFull(newSlice, SlidingLimit(p))
       IN  /\ userSlices' = [userSlices EXCEPT ![u].ts =
                    IF deny THEN newSlice ELSE Append(newSlice, proc[p].now)]
           /\ userBuckets' = [userBuckets EXCEPT ![u] = Unlocked(@)]
           /\ proc' = [proc EXCEPT ![p] = Return(p, ~deny)]
           /\ hist' = Decided(p, ~deny)
    /\ UNCHANGED <<clock, globalMode, userConfig, rdb, leakyBuckets, remoteVars, storeUp,
                   calls>>

SlidingStep(p) ==
    \/ SlidingLoadMutex(p)
    \/ SlidingLoadSlice(p)
    \/ SlidingReadClock(p)
    \/ SlidingLock(p)
    \/ SlidingDecide(p)

\* ------------------------------------------------------------------------
\* float64 arithmetic (tokens, capacity and ratePerMs are float64)
\* ------------------------------------------------------------------------
\* A float64 amount x >= 0 is held as the natural number x * 2^FracBits,
\* written in NumLimbs limbs of LimbBits bits, lowest limb first.  That number
\* is an integer for every amount the limiter computes, which is 0 or at least
\* 2^-56: the rate limit / 1000 is at least 2^-10, a difference tokens - 1.0 is
\* 0 or at least 2^-52, and a decimal of 14 digits printed from an amount is
\* within 10^-13 of it.  Every operation gives the exact result rounded to
\* MantissaBits significant bits, ties to even, as IEEE 754 does.  The limbs are
\* wide enough for the decimal conversions of the store's script as well.
MantissaBits == 53
FracBits == 108
LimbBits == 18
NumLimbs == 9
LimbBase == 2 ^ LimbBits
Limbs == 1..NumLimbs

BigZero == <<0, 0, 0, 0, 0, 0, 0, 0, 0>>

\* the natural number n below 2^18
BigOfNat(n) == <<n, 0, 0, 0, 0, 0, 0, 0, 0>>

BigAdd(a, b) ==
    LET s1 == a[1] + b[1]
        s2 == a[2] + b[2] + s1 \div LimbBase
        s3 == a[3] + b[3] + s2 \div LimbBase
        s4 == a[4] + b[4] + s3 \div LimbBase
        s5 == a[5] + b[5] + s4 \div LimbBase
        s6 == a[6] + b[6] + s5 \div LimbBase
        s7 == a[7] + b[7] + s6 \div LimbBase
        s8 == a[8] + b[8] + s7 \div LimbBase
        s9 == a[9] + b[9] + s8 \div LimbBase
    IN  <<s1 % LimbBase, s2 % LimbBase, s3 % LimbBase, s4 % LimbBase, s5 % LimbBase, s6 % LimbBase, s7 % LimbBase, s8 % LimbBase, s9 % LimbBase>>

\* a - b, for a >= b
BigSub(a, b) ==
    LET d1 == a[1] - b[1]
        d2 == a[2] - b[2] - (IF d1 < 0 THEN 1 ELSE 0)
        d3 == a[3] - b[3] - (IF d2 < 0 THEN 1 ELSE 0)
        d4 == a[4] - b[4] - (IF d3 < 0 THEN 1 ELSE 0)
        d5 == a[5] - b[5] - (IF d4 < 0 THEN 1 ELSE 0)
        d6 == a[6] - b[6] - (IF d5 < 0 THEN 1 ELSE 0)
        d7 == a[7] - b[7] - (IF d6 < 0 THEN 1 ELSE 0)
        d8 == a[8] - b[8] - (IF d7 < 0 THEN 1 ELSE 0)
        d9 == a[9] - b[9] - (IF d8 < 0 THEN 1 ELSE 0)
    IN  <<d1 % LimbBase, d2 % LimbBase, d3 % LimbBase, d4 % LimbBase, d5 % LimbBase, d6 % LimbBase, d7 % LimbBase, d8 % LimbBase, d9 % LimbBase>>

\* a * m, for a natural number m below 2^13
BigMulSmall(a, m) ==
    LET p1 == a[1] * m
        p2 == a[2] * m + p1 \div LimbBase
        p3 == a[3] * m + p2 \div LimbBase
        p4 == a[4] * m + p3 \div LimbBase
        p5 == a[5] * m + p4 \div LimbBase
        p6 == a[6] * m + p5 \div LimbBase
        p7 == a[7] * m + p6 \div LimbBase
        p8 == a[8] * m + p7 \div LimbBase
        p9 == a[9] * m + p8 \div LimbBase
    IN  <<p1 % LimbBase, p2 % LimbBase, p3 % LimbBase, p4 % LimbBase, p5 % LimbBase, p6 % LimbBase, p7 % LimbBase, p8 % LimbBase, p9 % LimbBase>>

\* quotient and remainder of a by a natural number m below 2^13
BigDivSmall(a, m) ==
    LET c9 == a[9]
        c8 == (c9 % m) * LimbBase + a[8]
        c7 == (c8 % m) * LimbBase + a[7]
        c6 == (c7 % m) * LimbBase + a[6]
        c5 == (c6 % m) * LimbBase + a[5]
        c4 == (c5 % m) * LimbBase + a[4]
        c3 == (c4 % m) * LimbBase + a[3]
        c2 == (c3 % m) * LimbBase + a[2]
        c1 == (c2 % m) * LimbBase + a[1]
    IN  [q |-> <<c1 \div m, c2 \div m, c3 \div m, c4 \div m, c5 \div m, c6 \div m, c7 \div m, c8 \div m, c9 \div m>>,
         r |-> c1 % m]

\* -1, 0 or 1 as a is below, equal to or above b
BigCmp(a, b) ==
    LET top == IF a[9] # b[9] THEN 9 ELSE IF a[8] # b[8] THEN 8 ELSE IF a[7] # b[7] THEN 7
               ELSE IF a[6] # b[6] THEN 6 ELSE IF a[5] # b[5] THEN 5 ELSE IF a[4] # b[4] THEN 4
               ELSE IF a[3] # b[3] THEN 3 ELSE IF a[2] # b[2] THEN 2 ELSE 1
    IN  IF a[top] > b[top] THEN 1 ELSE IF a[top] < b[top] THEN -1 ELSE 0

RECURSIVE SmallBitLen(_)
SmallBitLen(n) == IF n = 0 THEN 0 ELSE 1 + SmallBitLen(n \div 2)

\* the number of bits of a
BitLen(a) ==
    LET top == IF a[9] # 0 THEN 9 ELSE IF a[8] # 0 THEN 8 ELSE IF a[7] # 0 THEN 7
               ELSE IF a[6] # 0 THEN 6 ELSE IF a[5] # 0 THEN 5 ELSE IF a[4] # 0 THEN 4
               ELSE IF a[3] # 0 THEN 3 ELSE IF a[2] # 0 THEN 2 ELSE 1
    IN  (top - 1) * LimbBits + SmallBitLen(a[top])

\* the limb i of a, 0 outside the limbs
Limb(a, i) == IF i \in Limbs THEN a[i] ELSE 0

\* a * 2^d, for a below 2^(NumLimbs * LimbBits - d)
ShiftLeftBits(a, d) ==
    LET n == d \div LimbBits
        low == 2 ^ (d % LimbBits)
        high == 2 ^ (LimbBits - (d % LimbBits))
        e(i) == (Limb(a, i - n) % high) * low + Limb(a, i - n - 1) \div high
    IN  <<e(1), e(2), e(3), e(4), e(5), e(6), e(7), e(8), e(9)>>

\* a \div 2^d, and whether a bit that was dropped is set
ShiftRightBits(a, d) ==
    LET n == d \div LimbBits
        low == 2 ^ (d % LimbBits)
        high == 2 ^ (LimbBits - (d % LimbBits))
        e(i) == Limb(a, i + n) \div low + (Limb(a, i + n + 1) % low) * high
    IN  [q |-> <<e(1), e(2), e(3), e(4), e(5), e(6), e(7), e(8), e(9)>>,
         sticky |-> Limb(a, n + 1) % low # 0 \/ \E i \in Limbs : i <= n /\ a[i] # 0]

\* q, or q + 1 when the half bit dropped below q is set and either more was
\* dropped or q is odd
RoundHalfEven(q, half, more) ==
    IF half /\ (more \/ q[1] % 2 = 1) THEN BigAdd(q, BigOfNat(1)) ELSE q

\* guard.q / 2 rounded to an integer, ties to even
RoundGuarded(guard, sticky) ==
    RoundHalfEven(ShiftRightBits(guard.q, 1).q, guard.q[1] % 2 = 1, guard.sticky \/ sticky)

\* a / 2^d rounded to an integer, ties to even, for d >= 1; sticky tells that
\* the amount rounded is a bit more than a
RoundShift(a, d, sticky) == RoundGuarded(ShiftRightBits(a, d - 1), sticky)

RECURSIVE SmallZeroBits(_)
SmallZeroBits(n) ==
    IF n = 0 THEN LimbBits ELSE IF n % 2 = 1 THEN 0 ELSE 1 + SmallZeroBits(n \div 2)

\* the number of zero bits below the lowest set bit of a
ZeroBits(a) ==
    LET low == IF a[1] # 0 THEN 1 ELSE IF a[2] # 0 THEN 2 ELSE IF a[3] # 0 THEN 3
               ELSE IF a[4] # 0 THEN 4 ELSE IF a[5] # 0 THEN 5 ELSE IF a[6] # 0 THEN 6
               ELSE IF a[7] # 0 THEN 7 ELSE IF a[8] # 0 THEN 8 ELSE 9
    IN  (low - 1) * LimbBits + SmallZeroBits(a[low])

\* 2^(d - 1), half a unit of the bit d, for d >= 1
HalfUlp(d) ==
    LET h(i) == IF i = (d - 1) \div LimbBits + 1 THEN 2 ^ ((d - 1) % LimbBits) ELSE 0
    IN  <<h(1), h(2), h(3), h(4), h(5), h(6), h(7), h(8), h(9)>>

\* a with its d lowest bits cleared
ClearLow(a, d) ==
    LET e(i) == IF i < d \div LimbBits + 1 THEN 0
                ELSE IF i = d \div LimbBits + 1 THEN a[i] - (a[i] % 2 ^ (d % LimbBits))
                ELSE a[i]
    IN  <<e(1), e(2), e(3), e(4), e(5), e(6), e(7), e(8), e(9)>>

\* a rounded to a multiple of 2^d, ties to even; zeros is ZeroBits(a)
RoundAt(a, sticky, d, zeros) ==
    IF d <= 0 \/ (~sticky /\ zeros >= d) THEN a
    ELSE IF ~sticky /\ zeros = d - 1 /\ (a[d \div LimbBits + 1] \div 2 ^ (d % LimbBits)) % 2 = 0
    THEN ClearLow(a, d)
    ELSE ClearLow(BigAdd(a, HalfUlp(d)), d)

\* the float64 nearest to a (to a and a bit more, when sticky), ties to even,
\* for a = 0 or a of at least MantissaBits bits; a itself when it has no
\* more than MantissaBits significant bits
RoundFloat(a, sticky) == RoundAt(a, sticky, BitLen(a) - MantissaBits, ZeroBits(a))

\* float64(n) for an int n, 0 <= n < 2^18
FloatOfInt(n) == <<0, 0, 0, 0, 0, 0, n, 0, 0>>

\* x / float64(m)
FloatDivInt(x, m) ==
    LET qr == BigDivSmall(x, m)
    IN  RoundFloat(qr.q, qr.r # 0)

\* float64(n) * x
FloatMulInt(n, x) == RoundFloat(BigMulSmall(x, n), FALSE)

FloatAdd(x, y) == RoundFloat(BigAdd(x, y), FALSE)

\* x - y, for x >= y
FloatSub(x, y) == RoundFloat(BigSub(x, y), FALSE)

FloatGeq(x, y) == BigCmp(x, y) >= 0

FloatGt(x, y) == BigCmp(x, y) > 0

\* ------------------------------------------------------------------------
\* Leaky bucket, in memory: rateLimitMemoryLeaky
\* ------------------------------------------------------------------------
\* the composite literal &leakyState{...}: time.Now() is read before LoadOrStore
LeakyNew(p) ==
    /\ proc[p].pc = "lk_new"
    /\ proc' = [proc EXCEPT ![p].pc = "lk_store", ![p].now = clock]
    /\ UNCHANGED <<clock, globalMode, userConfig, rdb, localVars, remoteVars, storeUp, hist,
                   calls>>

\* capacity := float64(limit)
Capacity(limit) == FloatOfInt(limit)

\* ratePerMs := float64(limit) / 1000.0
RatePerMs(limit) == FloatDivInt(FloatOfInt(limit), WindowMs)

\* &leakyState{tokens: capacity, lastMillis: ..., capacity: capacity, ratePerMs: ratePerMs}
NewLeakyState(p, limit, lastMillis) ==
    [ref |-> p, locked |-> FALSE, tokens |-> Capacity(limit), lastMillis |-> lastMillis,
     capacity |-> Capacity(limit), ratePerMs |-> RatePerMs(limit)]

\* val, _ := leakyBuckets.LoadOrStore(userID, &leakyState{...})
LeakyLoadOrStore(p) ==
    /\ proc[p].pc = "lk_store"
    /\ leakyBuckets' = LoadOrStore(leakyBuckets, proc[p].userID,
                                   NewLeakyState(p, proc[p].limit, proc[p].now))
    /\ proc' = [proc EXCEPT ![p].pc = "lk_now", ![p].st = leakyBuckets'[proc[p].userID].ref]
    /\ UNCHANGED <<clock, globalMode, userConfig, rdb, userBuckets, userSlices, remoteVars,
                   storeUp, hist, calls>>

\* now := time.Now().UnixMilli()
LeakyReadClock(p) ==
    /\ proc[p].pc = "lk_now"
    /\ proc' = [proc EXCEPT ![p].pc = "lk_lock", ![p].now = clock]
    /\ UNCHANGED <<clock, globalMode, userConfig, rdb, localVars, remoteVars, storeUp, hist,
                   calls>>

\* st.mtx.Lock()
LeakyLock(p) ==
    /\ proc[p].pc = "lk_lock"
    /\ leakyBuckets[proc[p].userID].ref = proc[p].st
    /\ CanLock(leakyBuckets[proc[p].userID])
    /\ leakyBuckets' = [leakyBuckets EXCEPT ![proc[p].userID].locked = TRUE]
    /\ proc' = [proc EXCEPT ![p].pc = "lk_crit"]
    /\ UNCHANGED <<clock, globalMode, userConfig, rdb, userBuckets, userSlices, remoteVars,
                   storeUp, hist, calls>>

\* elapsed := float64(now - st.lastMillis); if elapsed < 0 { elapsed = 0 }
Elapsed(now, lastMillis) == Max(now - lastMillis, 0)

\* if st.tokens > st.capacity { st.tokens = st.capacity }
ClampTokens(tokens, capacity) == IF FloatGt(tokens, capacity) THEN capacity ELSE tokens

\* refill := elapsed * st.ratePerMs; st.tokens += refill
\* if st.tokens > st.capacity { st.tokens = st.capacity }
Refill(tokens, elapsed, ratePerMs, capacity) ==
    ClampTokens(FloatAdd(tokens, FloatMulInt(elapsed, ratePerMs)), capacity)

\* if st.tokens >= 1.0
HasToken(tokens) == FloatGeq(tokens, FloatOfInt(1))

\* st.tokens -= 1.0
Consume(tokens) == FloatSub(tokens, FloatOfInt(1))

\* the critical section (refill, consume) and the deferred st.mtx.Unlock()
LeakyDecide(p) ==
    /\ proc[p].pc = "lk_crit"
    /\ LET u == proc[p].userID
           st == leakyBuckets[u]
           tokens == Refill(st.tokens, Elapsed(proc[p].now, st.lastMillis), st.ratePerMs,
                            st.capacity)
           allow == HasToken(tokens)
       IN  /\ leakyBuckets' = [leakyBuckets EXCEPT ![u] =
                    Unlocked([st EXCEPT !.tokens = IF allow THEN Consume(tokens) ELSE tokens,
                                        !.lastMillis = proc[p].now])]
           /\ proc' = [proc EXCEPT ![p] = Return(p, allow)]
           /\ hist' = Decided(p, allow)
    /\ UNCHANGED <<clock, globalMode, userConfig, rdb, userBuckets, userSlices, remoteVars,
                   storeUp, calls>>

LeakyStep(p) ==
    \/ LeakyNew(p)
    \/ LeakyLoadOrStore(p)
    \/ LeakyReadClock(p)
    \/ LeakyLock(p)
    \/ LeakyDecide(p)

\* ------------------------------------------------------------------------
\* Remote store: the scripts and their callers
\* ------------------------------------------------------------------------
\* mutant: the key does not depend on the identity
RateKeyShared(userID) == "rate:"

\* key := "rate:" + userID
RateKey(userID) == "rate:" \o userID

\* key := "bucket:" + userID
BucketKey(userID) == "bucket:" \o userID

\* a nanosecond clock value later than the one the goroutine read before
Later(ns, last) == ns[1] > last[1] \/ (ns[1] = last[1] /\ ns[2] > last[2])

\* if rdb == nil || limit <= 0 { return false }; t := time.Now()
RedisReadClock(p, next) ==
    IF ~rdb \/ proc[p].limit <= 0
    THEN proc' = [proc EXCEPT ![p] = Return(p, FALSE)]
    ELSE \E frac \in 0..MaxFrac :
            /\ Later(<<clock, frac>>, proc[p].nowNs)
            /\ proc' = [proc EXCEPT ![p].pc = next, ![p].now = clock,
                                    ![p].nowNs = <<clock, frac>>]

\* mutant: an error of the store lets the request through
ScriptResultFailOpen(err, res) == IF err THEN TRUE ELSE res = 1

\* res, err := redis.NewScript(lua).Run(...).Int(); if err != nil { return false }
\* return res == 1
ScriptResult(err, res) == IF err THEN FALSE ELSE res = 1

\* the members of a sorted set with a score outside [lo, hi]
ZRemRangeByScore(zset, lo, hi) ==
    [m \in {x \in DOMAIN zset : ~(lo <= zset[x] /\ zset[x] <= hi)} |-> zset[m]]

\* ZADD key score member: a member that is present gets the new score
ZAdd(zset, score, member) == Put(zset, member, score)

\* the sliding script on the keys of the store, run at store time t:
\* the keys afterwards and the script's reply
SlidingScript(keys, key, cutoff, limit, score, member, t) ==
    LET zset == IF key \in DOMAIN keys THEN keys[key].zset ELSE EmptyMap
        pruned == ZRemRangeByScore(zset, 0, cutoff)
        current == Cardinality(DOMAIN pruned)
        kept == IF DOMAIN pruned = {}
                THEN Del(keys, key)
                ELSE Put(keys, key, [zset |-> pruned, expireAt |-> keys[key].expireAt])
    IN  IF current < limit
        THEN [keys |-> Put(keys, key, [zset |-> ZAdd(pruned, score, member),
                                       expireAt |-> t + ExpireMs]),
              res |-> 1]
        ELSE [keys |-> kept, res |-> 0]

RedisSlidingReadClock(p) ==
    /\ proc[p].pc = "rs_now"
    /\ RedisReadClock(p, "rs_run")
    /\ UNCHANGED <<clock, globalMode, userConfig, rdb, localVars, remoteVars, storeUp, hist,
                   calls>>

\* redis.NewScript(lua).Run(ctx, rdb, []string{key}, ...): one atomic execution
\* on the store, or an error when the store does not answer
RedisSlidingRun(p) ==
    /\ proc[p].pc = "rs_run"
    /\ LET u == proc[p].userID
           out == SlidingScript(rateKeys, RateKey(u), proc[p].now - WindowMs, proc[p].limit,
                                proc[p].now, proc[p].nowNs, clock)
           err == ~storeUp
           ret == ScriptResult(err, out.res)
       IN  /\ rateKeys' = IF err THEN rateKeys ELSE out.keys
           /\ proc' = [proc EXCEPT ![p] = [Return(p, ret) EXCEPT !.err = err]]
           /\ hist' = Decided(p, ret)
    /\ UNCHANGED <<clock, globalMode, userConfig, rdb, localVars, bucketKeys, storeUp, calls>>

\* tostring(x) of Lua is printf("%.14g"): DecimalDigits significant digits
DecimalDigits == 14
\* strconv.FormatFloat(x, 'f', prec, 64) with a negative prec writes the
\* shortest decimal that reads back as x, which has at most ShortestDigits digits
ShortestDigits == 17

\* 10^k as an amount
RECURSIVE TenTo(_)
TenTo(k) == IF k = 0 THEN FloatOfInt(1) ELSE BigMulSmall(TenTo(k - 1), 10)
PowersOfTen == [k \in 0..ShortestDigits - 1 |-> TenTo(k)]

\* whether the amount x is a whole number
IsWhole(x) == ZeroBits(x) >= FracBits

\* n * 10^j and k + j, for the least j that makes n * 10^j a whole number or
\* at least `least`
RECURSIVE ScaleUp(_, _, _)
ScaleUp(n, k, least) ==
    LET thousand == BigMulSmall(n, 1000)
    IN  IF IsWhole(n) \/ BigCmp(n, least) >= 0 THEN [n |-> n, k |-> k]
        ELSE IF BigCmp(thousand, least) < 0 /\ ~IsWhole(BigMulSmall(n, 100))
        THEN ScaleUp(thousand, k + 3, least)
        ELSE ScaleUp(BigMulSmall(n, 10), k + 1, least)

\* the whole number nearest to up.n, ties to even, as digits * 10^-up.k
RoundDigits(up) == [digits |-> RoundShift(up.n, FracBits, FALSE), scale |-> up.k]

\* the decimal digits * 10^-scale that printf and strconv write for the amount
\* x with `digits` significant digits: x itself when that many digits or fewer
\* write it in full, else the nearest decimal of that many digits, ties to
\* even
ToDecimal(x, digits) ==
    IF x = BigZero THEN [digits |-> BigZero, scale |-> 0]
    ELSE RoundDigits(ScaleUp(x, 0, PowersOfTen[digits - 1]))

\* q / 10^k rounded to the nearest float64, ties to even
RECURSIVE ScaleDown(_, _, _)
ScaleDown(q, sticky, k) ==
    IF k = 0 THEN RoundFloat(q, sticky)
    ELSE LET by == IF k >= 3 THEN 3 ELSE 1
             qr == BigDivSmall(q, 10 ^ by)
         IN  IF qr.r # 0 THEN ScaleDown(qr.q, TRUE, k - by) ELSE ScaleDown(qr.q, sticky, k - by)

\* tonumber(s) of Lua, strtod: the float64 nearest to the decimal s
LuaToNumber(s) == ScaleDown(ShiftLeftBits(s.digits, FracBits), FALSE, s.scale)

\* tostring(x) of Lua
LuaToString(x) == ToDecimal(x, DecimalDigits)

\* the first decimal of x, of `digits` digits or more, that reads back as x
RECURSIVE Shortest(_, _)
Shortest(x, digits) ==
    LET s == ToDecimal(x, digits)
    IN  IF digits = ShortestDigits \/ LuaToNumber(s) = x THEN s ELSE Shortest(x, digits + 1)

\* strconv.FormatFloat(x, 'f', -1, 64) and strconv.FormatFloat(x, 'f', -8, 64)
FormatFloat(x) == Shortest(x, 1)

\* strconv.FormatInt(n, 10) read by tonumber, for n below 2^18
LuaOfInt(n) == FloatOfInt(n)

\* the whole number that the amount x is, for x below 2^18
FloatToInt(x) == x[FracBits \div LimbBits + 1]

\* ARGV[2] and ARGV[3] as the script reads them, for the limits that callers
\* and definitions use: capacityStr and rateStr read by tonumber
ScriptArgs ==
    [limit \in 1..(MaxLimit + MaxFixed) |->
        [capacity |-> LuaToNumber(FormatFloat(Capacity(limit))),
         rate |-> LuaToNumber(FormatFloat(RatePerMs(limit)))]]

\* lines 252-253 of the script: elapsed = now - last, 0 when negative
ScriptElapsed(now, last) == IF FloatGt(now, last) THEN FloatSub(now, last) ELSE BigZero

\* lines 254-256 of the script: the tokens after the leak, at most capacity
ScriptRefill(tokens, elapsed, args) ==
    ClampTokens(FloatAdd(tokens, FloatMulInt(FloatToInt(elapsed), args.rate)), args.capacity)

\* lines 258-267 of the script: a token is taken when there is one, the
\* tokens and now are written as strings, the key expires in ExpireMs
ScriptStore(keys, key, tokens, now, t) ==
    [keys |-> Put(keys, key,
                  [tokens |-> LuaToString(IF HasToken(tokens) THEN Consume(tokens) ELSE tokens),
                   last |-> LuaToString(now), expireAt |-> t + ExpireMs]),
     res |-> IF HasToken(tokens) THEN 1 ELSE 0]

\* lines 246-250 of the script: the fields of the key, or a full bucket as
\* of now when the key is not there
ScriptLoad(keys, key, now, args) ==
    IF key \in DOMAIN keys
    THEN [tokens |-> LuaToNumber(keys[key].tokens), last |-> LuaToNumber(keys[key].last)]
    ELSE [tokens |-> args.capacity, last |-> now]

\* the script with its arguments read
ScriptRun(keys, key, now, args, t) ==
    ScriptStore(keys, key,
                ScriptRefill(ScriptLoad(keys, key, now, args).tokens,
                             ScriptElapsed(now, ScriptLoad(keys, key, now, args).last), args),
                now, t)

\* the leaky script on the keys of the store, run at store time t
LeakyScript(keys, key, nowMs, limit, t) ==
    ScriptRun(keys, key, LuaOfInt(nowMs), ScriptArgs[limit], t)

RedisLeakyReadClock(p) ==
    /\ proc[p].pc = "rl_now"
    /\ RedisReadClock(p, "rl_run")
    /\ UNCHANGED <<clock, globalMode, userConfig, rdb, localVars, remoteVars, storeUp, hist,
                   calls>>

\* the caller after rdb.Eval: the script's effect out when the store was
\* reached, the result or the error handed back
RedisLeakyDone(p, out, err) ==
    /\ bucketKeys' = IF err THEN bucketKeys ELSE out.keys
    /\ proc' = [proc EXCEPT ![p] = [Return(p, ScriptResult(err, out.res)) EXCEPT !.err = err]]
    /\ hist' = Decided(p, ScriptResult(err, out.res))

RedisLeakyRun(p) ==
    /\ proc[p].pc = "rl_run"
    /\ RedisLeakyDone(p, LeakyScript(bucketKeys, BucketKey(proc[p].userID), proc[p].now,
                                     proc[p].limit, clock), ~storeUp)
    /\ UNCHANGED <<clock, globalMode, userConfig, rdb, localVars, rateKeys, storeUp, calls>>

RedisStep(p) ==
    \/ RedisSlidingReadClock(p)
    \/ RedisSlidingRun(p)
    \/ RedisLeakyReadClock(p)
    \/ RedisLeakyRun(p)

\* ------------------------------------------------------------------------
\* Specifications
\* ------------------------------------------------------------------------
\* the limiter after SetUserLimit("a", l), for some limit l
InitConfigured(mode, handle) ==
    /\ clock = 0
    /\ globalMode = mode
    /\ userConfig \in [{"a"} -> 1..MaxFixed]
    /\ rdb = handle
    /\ userBuckets = EmptyMap
    /\ userSlices = EmptyMap
    /\ leakyBuckets = EmptyMap
    /\ rateKeys = EmptyMap
    /\ bucketKeys = EmptyMap
    /\ storeUp = TRUE
    /\ proc = [p \in Procs |-> Idle]
    /\ hist = [u \in Users |-> <<>>]
    /\ calls = 0

\* local sliding mode, concurrent callers, one identity with a configured limit
NextSliding ==
    \/ Tick(Instants)
    \/ calls < MaxCalls /\ \E p \in Procs : RateLimit(p, "a", MaxLimit)
    \/ \E p \in Procs : SlidingStep(p)

SpecSliding == InitConfigured("sliding", FALSE) /\ [][NextSliding]_vars

\* distributed sliding mode: the callers are processes that share the store
NextRedisSliding ==
    \/ Tick(Instants)
    \/ calls < MaxCalls /\ \E p \in Procs : RateLimit(p, "a", MaxLimit)
    \/ \E p \in Procs : RedisSlidingReadClock(p)
    \/ \E p \in Procs : RedisSlidingRun(p)

SpecRedisSliding == InitConfigured("sliding", TRUE) /\ [][NextRedisSliding]_vars

\* local leaky mode, concurrent callers, one identity with a configured limit
NextLeaky ==
    \/ Tick(Instants)
    \/ calls < MaxCalls /\ \E p \in Procs : RateLimit(p, "a", MaxLimit)
    \/ \E p \in Procs : LeakyStep(p)

SpecLeaky == InitConfigured("leaky", FALSE) /\ [][NextLeaky]_vars

\* the limiter after SetMode(mode), with or without InitRedis
InitMode(mode, handle) ==
    /\ clock = 0
    /\ globalMode = mode
    /\ userConfig = EmptyMap
    /\ rdb = handle
    /\ userBuckets = EmptyMap
    /\ userSlices = EmptyMap
    /\ leakyBuckets = EmptyMap
    /\ rateKeys = EmptyMap
    /\ bucketKeys = EmptyMap
    /\ storeUp = TRUE
    /\ proc = [p \in Procs |-> Idle]
    /\ hist = [u \in Users |-> <<>>]
    /\ calls = 0

\* local leaky mode, the limit of the identity changes between the calls
NextLeakyDyn ==
    \/ Tick(Instants)
    \/ calls < MaxCalls /\ \E k \in 1..MaxLimit : SetUserLimit("a", k)
    \/ calls < MaxCalls /\ \E p \in Procs : RateLimit(p, "a", MaxLimit)
    \/ \E p \in Procs : LeakyStep(p)

SpecLeakyDyn == InitMode("leaky", FALSE) /\ [][NextLeakyDyn]_vars

\* sliding mode, local or distributed, one caller whose calls do not overlap
NextSeq ==
    \/ Tick(Instants)
    \/ calls < MaxSeqCalls /\ RateLimit("p1", "a", MaxLimit)
    \/ SlidingStep("p1")
    \/ RedisSlidingReadClock("p1")
    \/ RedisSlidingRun("p1")

SpecSeq ==
    /\ InitConfigured("sliding", FALSE) \/ InitConfigured("sliding", TRUE)
    /\ [][NextSeq]_vars

\* the values callers pass as a mode and as a limit
Modes == {"sliding", "leaky", "fixed"}
Limits == {-1, 0, 1, MaxLimit}

\* the limiter after any SetMode, with or without InitRedis
InitAny == \E mode \in {"sliding", "leaky"}, handle \in BOOLEAN : InitMode(mode, handle)

\* concurrent callers for two identities, in each mode and with each backend
NextPair ==
    \/ Tick(Boundaries)
    \/ calls < MaxAnyCalls /\ \E p \in Procs, u \in Users : RateLimit(p, u, 1)
    \/ \E p \in Procs : SlidingStep(p)
    \/ \E p \in Procs : LeakyStep(p)
    \/ \E p \in Procs : RedisStep(p)

SpecPair == InitAny /\ [][NextPair]_vars

\* every function of the package, called by one caller at a time for two
\* identities, with a store that comes and goes
NextFacade ==
    \/ Tick(Boundaries)
    \/ StoreFlip
    \/ calls < MaxAnyCalls /\ InitRedis
    \/ calls < MaxAnyCalls /\ \E mode \in Modes : SetMode(mode)
    \/ calls < MaxAnyCalls /\ \E u \in Users, k \in Limits : SetUserLimit(u, k)
    \/ calls < MaxAnyCalls /\ \E u \in Users, d \in Limits : RateLimit("p1", u, d)
    \/ SlidingStep("p1")
    \/ LeakyStep("p1")
    \/ RedisStep("p1")

Spec == InitAny /\ [][NextFacade]_vars

\* the members a definition can hold: an identity with a positive integer, or
\* with a value that is not an integer
Members ==
    [user : Users, limit : 1..MaxFixed, isInt : {TRUE}]
        \cup [user : Users, limit : {0}, isInt : {FALSE}]

\* the files LoadUserConfigFromJSON is called on: unreadable, not JSON, or an
\* object of up to MaxEntries members
Sources ==
    {[readable |-> FALSE, wellFormed |-> FALSE, entries |-> <<>>],
     [readable |-> TRUE, wellFormed |-> FALSE, entries |-> <<>>]}
        \cup {[readable |-> TRUE, wellFormed |-> TRUE, entries |-> e] :
                    e \in UNION {[1..n -> Members] : n \in 0..MaxEntries}}

\* the limiter after any SetMode, with or without InitRedis, and with or
\* without SetUserLimit("b", MaxLimit); one goroutine is about to load a definition
InitLoad ==
    /\ clock = 0
    /\ globalMode \in {"sliding", "leaky"}
    /\ userConfig \in {EmptyMap, [u \in {"b"} |-> MaxLimit]}
    /\ rdb \in BOOLEAN
    /\ userBuckets = EmptyMap
    /\ userSlices = EmptyMap
    /\ leakyBuckets = EmptyMap
    /\ rateKeys = EmptyMap
    /\ bucketKeys = EmptyMap
    /\ storeUp = TRUE
    /\ proc = [p \in Procs \cup {Loader} |-> IF p = Loader THEN LoaderIdle ELSE Idle]
    /\ hist = [u \in Users |-> <<>>]
    /\ calls = 0

\* LoadUserConfigFromJSON has returned nil; Loaded is the mapping it read
LoadedOk == proc[Loader].pc = "ld_done" /\ ~proc[Loader].err

Loaded == proc[Loader].cfg

\* the first and the last instant of a window and the first instant after it
WindowInstants == {0, WindowMs - 1, WindowMs}

\* a definition is loaded; when that succeeded, one caller calls RateLimit for
\* the identity "a" during the window that follows and right after it
NextLoad ==
    \/ Tick(WindowInstants)
    \/ \E src \in Sources : LoadUserConfigFromJSON(src)
    \/ LoadRange
    \/ /\ calls < MaxLoadCalls
       /\ LoadedOk
       /\ RateLimit("p1", "a", MaxLimit)
    \/ SlidingStep("p1")
    \/ LeakyStep("p1")
    \/ RedisStep("p1")

SpecLoad == InitLoad /\ [][NextLoad]_vars

\* the package as it is loaded; goroutines call SetMode and GetMode
NextMode ==
    \/ calls < MaxModeCalls /\ \E p \in Procs, mode \in Modes : SetModeBy(p, mode)
    \/ calls < MaxModeCalls /\ \E p \in Procs : GetModeBy(p)

SpecMode == Init /\ [][NextMode]_vars

\* local sliding mode, one caller whose calls do not overlap and carry limits
\* that change
NextSlidingDyn ==
    \/ Tick(WindowInstants)
    \/ calls < MaxSeqCalls /\ \E l \in 1..MaxLimit : RateLimit("p1", "a", l)
    \/ SlidingStep("p1")

SpecSlidingDyn == InitMode("sliding", FALSE) /\ [][NextSlidingDyn]_vars

\* the limiter without a redis handle, after any SetMode
InitLocal == \E mode \in {"sliding", "leaky"} : InitMode(mode, FALSE)

\* local mode: concurrent callers for two identities, while the mode changes
NextLocal ==
    \/ Tick(WindowInstants)
    \/ calls < MaxCalls /\ \E mode \in {"sliding", "leaky"} : SetMode(mode)
    \/ calls < MaxCalls /\ \E p \in Procs, u \in Users : RateLimit(p, u, 1)
    \/ \E p \in Procs : SlidingStep(p)
    \/ \E p \in Procs : LeakyStep(p)

\* goroutine p can take a step: it is inside a call and not blocked in Lock.
\* This is ENABLED <<SlidingStep(p) \/ LeakyStep(p)>>_vars written as a state
\* predicate: every step of a call changes the position of its goroutine.
Runnable(p) ==
    \/ proc[p].pc \in {"sl_mutex", "sl_slice", "sl_now", "sl_crit"}
    \/ proc[p].pc \in {"lk_new", "lk_store", "lk_now", "lk_crit"}
    \/ proc[p].pc = "sl_lock" /\ CanLock(userBuckets[proc[p].userID])
    \/ proc[p].pc = "lk_lock" /\ CanLock(leakyBuckets[proc[p].userID])

\* the scheduler of the Go runtime lets every goroutine that can take a step
\* take one in the end: WF_vars(SlidingStep(p) \/ LeakyStep(p)) for every
\* goroutine p, with the enabling condition as Runnable(p)
FairSteps ==
    \A p \in Procs :
        []<>(~Runnable(p)) \/ []<><<SlidingStep(p) \/ LeakyStep(p)>>_vars

SpecLocal == InitLocal /\ [][NextLocal]_vars

\* the same callers under a fair scheduler, the clock standing still
NextFair ==
    \/ calls < MaxCalls /\ \E mode \in {"sliding", "leaky"} : SetMode(mode)
    \/ calls < MaxCalls /\ \E p \in Procs, u \in Users : RateLimit(p, u, 1)
    \/ \E p \in Procs : SlidingStep(p)
    \/ \E p \in Procs : LeakyStep(p)

SpecFair == InitLocal /\ [][NextFair]_vars /\ FairSteps

\* the instants of the calls of one caller that waits parts of a second
RecoveryInstants == {0, 428, 910, WindowMs}

\* leaky mode, local or distributed, one caller whose calls do not overlap
NextRecover ==
    \/ Tick(RecoveryInstants)
    \/ calls < MaxSeqCalls /\ RateLimit("p1", "a", MaxLimit)
    \/ LeakyStep("p1")
    \/ RedisLeakyReadClock("p1")
    \/ RedisLeakyRun("p1")

SpecRecover ==
    /\ InitConfigured("leaky", FALSE) \/ InitConfigured("leaky", TRUE)
    /\ [][NextRecover]_vars

\* ------------------------------------------------------------------------
\* Properties
\* ------------------------------------------------------------------------
\* the positions of the decisions for u that returned true
Admits(u) == {i \in DOMAIN hist[u] : hist[u][i].ret}

\* the number of decisions for u that returned true at an instant of [lo, hi)
AdmitsIn(u, lo, hi) ==
    Cardinality({i \in Admits(u) : lo <= hist[u][i].at /\ hist[u][i].at < hi})

\* the limit configured for "a" when the behaviour began
FixedLimit == userConfig["a"]

\* C1 (local sliding, one identity, fixed limit L): in every half-open window
\* of 1000 ms, at most L decisions return true, each counted at the instant it
\* is taken under the identity's lock.
C1_SlidingWindowBound ==
    \A i \in Admits("a") :
        AdmitsIn("a", hist["a"][i].at, hist["a"][i].at + WindowMs) <= FixedLimit

\* C3 (local sliding): calls for a fresh identity that all read clock values
\* less than 1000 ms apart, in any interleaving: at most L of them return
\* true, and at least one does as soon as one call has returned.
C3_ConcurrentBurst ==
    clock < WindowMs =>
        /\ Cardinality(Admits("a")) <= FixedLimit
        /\ (hist["a"] # <<>> => Cardinality(Admits("a")) >= 1)

\* more calls than the limit have been decided within one window, one of them
\* by a caller that was delayed after it read the clock
C3_Witness ==
    /\ clock < WindowMs
    /\ Len(hist["a"]) > FixedLimit
    /\ Cardinality(Admits("a")) = FixedLimit
    /\ \E i \in DOMAIN hist["a"] : hist["a"][i].now < hist["a"][i].at /\ hist["a"][i].ret

\* C2 (distributed sliding, processes sharing one store, fixed limit L): in
\* every window of 1000 ms the processes together get at most L admissions,
\* each counted at the instant its script runs on the store.
C2_RedisWindowBound ==
    \A i \in Admits("a") :
        LET t == hist["a"][i].at
        IN  Cardinality({j \in Admits("a") : hist["a"][j].at \in t..(t + WindowMs - 1)})
                <= FixedLimit

\* the last decision taken for u
LastDecision(u) == hist[u][Len(hist[u])]

\* C4 (local leaky): in every state the tokens of every identity are between
\* 0 and the capacity, the capacity being the effective limit enforced for
\* the identity, that is the limit of its latest decision.
C4_TokensWithinCapacity ==
    \A u \in DOMAIN leakyBuckets :
        /\ FloatGeq(leakyBuckets[u].tokens, BigZero)
        /\ hist[u] # <<>> => FloatGeq(Capacity(LastDecision(u).limit), leakyBuckets[u].tokens)

\* C5 (local leaky, one identity, fixed limit L): over every interval of
\* T ms at most L + floor(L * T / 1000) decisions return true.
C5_LeakyRateBound ==
    \A i, j \in Admits("a") :
        LET from == hist["a"][i].at
            to == hist["a"][j].at
        IN  from <= to =>
                Cardinality({k \in Admits("a") : hist["a"][k].at \in from..to})
                    <= FixedLimit + (FixedLimit * (to - from)) \div WindowMs

\* C7 (override precedence): a call made while the override k > 0 is stored
\* is decided against k: k is the limit handed to the tracker, and the bucket
\* the leaky tracker decides on has capacity k and refills k tokens a second.
C7_OverrideEnforced ==
    \A p \in Procs :
        proc[p].cfg > 0 =>
            /\ proc[p].limit = proc[p].cfg
            /\ proc[p].pc = "lk_crit" =>
                    /\ leakyBuckets[proc[p].userID].capacity = Capacity(proc[p].cfg)
                    /\ leakyBuckets[proc[p].userID].ratePerMs = RatePerMs(proc[p].cfg)

\* the decision at position j of the history of "a" comes at least one window
\* after the call before it, which ended a window with exactly L admissions
RecoveryAt(j) ==
    LET h == hist["a"]
    IN  /\ j > 1
        /\ h[j].now - h[j - 1].at >= WindowMs
        /\ Cardinality({k \in 1..(j - 1) : h[k].ret /\ h[j - 1].at - h[k].at < WindowMs})
                = FixedLimit

\* C8 (window recovery, sliding mode, local and distributed): after L
\* admissions and then 1000 ms or more without a call, the next L calls made
\* within one window are admitted and the call after them is denied.
C8_WindowRecovery ==
    LET h == hist["a"]
    IN  \A j \in DOMAIN h :
            RecoveryAt(j) =>
                \A m \in j..Min(j + FixedLimit, Len(h)) :
                    h[m].at - h[j].now < WindowMs => (h[m].ret <=> m - j < FixedLimit)

\* the store was used, the wait was exactly 1000 ms, and the call after the
\* L admitted ones has been decided
C8_Witness ==
    LET h == hist["a"]
    IN  /\ rdb
        /\ \E j \in DOMAIN h :
                /\ RecoveryAt(j)
                /\ h[j].now - h[j - 1].at = WindowMs
                /\ Len(h) >= j + FixedLimit
                /\ h[j + FixedLimit].at - h[j].now < WindowMs
                /\ ~h[j + FixedLimit].ret

\* what the limiter holds for identity u: its lock, sliding log, bucket,
\* override and the entries of the remote store
Entry(m, k) == IF k \in DOMAIN m THEN <<m[k]>> ELSE <<>>

StateOf(u) ==
    <<Entry(userBuckets, u), Entry(userSlices, u), Entry(leakyBuckets, u),
      Entry(userConfig, u), Entry(rateKeys, RateKey(u)), Entry(bucketKeys, BucketKey(u))>>

\* C6 (independence of identities): a step of a RateLimit call for one
\* identity leaves the lock, log, bucket, override and remote entries of
\* every other identity unchanged, in each mode and with each backend.
C6_Independence ==
    [][\A p \in Procs, u \in Users :
          (proc'[p] # proc[p] /\ proc'[p].userID # u) => StateOf(u)' = StateOf(u)]_vars

\* both identities have an entry in the remote store and a decision
C6_Witness ==
    /\ RateKey("a") \in DOMAIN rateKeys
    /\ RateKey("b") \in DOMAIN rateKeys
    /\ hist["a"] # <<>>
    /\ hist["b"] # <<>>

\* C9: RateLimit(id, d) with d <= 0 returns false at once, also when a
\* positive override is stored for id, and changes nothing.
C9_NonPositiveDenied ==
    [][\A p \in Procs :
          (proc[p].pc \in {"idle", "done"} /\ proc'[p] # proc[p] /\ proc'[p].limit <= 0)
              => /\ proc'[p].pc = "done"
                 /\ ~proc'[p].ret
                 /\ UNCHANGED <<userConfig, localVars, remoteVars>>]_vars

\* a call with a non-positive limit has returned while a positive override is
\* stored for its identity
C9_Witness ==
    \E p \in Procs :
        /\ Returned(p)
        /\ proc[p].limit <= 0
        /\ proc[p].userID \in DOMAIN userConfig
        /\ userConfig[proc[p].userID] > 0

\* C10 (fail closed): with the redis handle set, a call with a positive limit
\* goes to the remote implementation, and a script run that the store does
\* not answer ends the call with false and leaves the local trackers alone.
C10_FailClosed ==
    [][\A p \in Procs :
          /\ (rdb /\ proc[p].pc \in {"idle", "done"} /\ proc'[p] # proc[p]
                  /\ proc'[p].limit > 0)
                => proc'[p].pc \in {"rs_now", "rl_now"}
          /\ (proc[p].pc \in {"rs_run", "rl_run"} /\ proc'[p] # proc[p] /\ ~storeUp)
                => /\ proc'[p].pc = "done"
                   /\ proc'[p].err
                   /\ ~proc'[p].ret
                   /\ UNCHANGED localVars]_vars

\* a call has returned after the store did not answer its script
C10_Witness == \E p \in Procs : Returned(p) /\ proc[p].err

\* every identity of the mapping has its limit as override, and the override
\* of every other identity is what it was before the load
OverridesLoaded ==
    /\ \A id \in DOMAIN Loaded : GetUserLimit(id) = <<Loaded[id], TRUE>>
    /\ \A id \in Users \ DOMAIN Loaded :
            Entry(userConfig, id) = Entry(proc[Loader].before, id)

\* of the calls for the fresh identity "a" decided within one window of the
\* first call, exactly the first Loaded["a"] are admitted
AdmitsLoaded ==
    LET h == hist["a"]
    IN  "a" \in DOMAIN Loaded =>
            \A m \in DOMAIN h :
                h[m].at - h[1].now < WindowMs => (h[m].ret <=> m <= Loaded["a"])

C12_FailedLoadChangesNothing ==
    proc[Loader].err => userConfig = proc[Loader].before

\* the load failed on a definition that holds a valid member and a member
\* that is not an integer, while an override was stored
C12_Witness ==
    /\ proc[Loader].pc = "ld_done"
    /\ proc[Loader].err
    /\ \E id \in DOMAIN proc[Loader].cfg : proc[Loader].cfg[id] > 0
    /\ \E id \in DOMAIN proc[Loader].cfg : proc[Loader].cfg[id] = 0
    /\ proc[Loader].before # EmptyMap

\* C13 (mode selector): the mode is "sliding" at first; SetMode(m) with m
\* "sliding" or "leaky" makes the mode m, with any other m it leaves the mode
\* as it is; GetMode returns the mode, which is "sliding" or "leaky".
C13_ModeSelector ==
    /\ GetMode = "sliding"
    /\ [][\A p \in Procs :
            proc'[p] # proc[p] =>
                /\ proc'[p].pc = "set" =>
                        GetMode' = IF proc'[p].mode \in {"sliding", "leaky"}
                                   THEN proc'[p].mode ELSE GetMode
                /\ proc'[p].pc = "got" =>
                        /\ proc'[p].mode = GetMode
                        /\ GetMode' = GetMode
                        /\ proc'[p].mode \in {"sliding", "leaky"}]_vars

\* one goroutine has called SetMode with an unknown mode, after which another
\* got "leaky" from GetMode
C13_Witness ==
    \E p, q \in Procs :
        /\ proc[p].pc = "set"
        /\ proc[p].mode = "fixed"
        /\ proc[q].pc = "got"
        /\ proc[q].mode = "leaky"
        /\ calls >= 3

\* the positions inside each of the four implementations
SlidingPcs == {"sl_mutex", "sl_slice", "sl_now", "sl_lock", "sl_crit"}
LeakyPcs == {"lk_new", "lk_store", "lk_now", "lk_lock", "lk_crit"}
RedisSlidingPcs == {"rs_now", "rs_run"}
RedisLeakyPcs == {"rl_now", "rl_run"}

\* the store differs from before at most under the key k of keys
OnlyKey(keys, keysAfter, k) ==
    \A x \in (DOMAIN keys \cup DOMAIN keysAfter) \ {k} : Entry(keys, x) = Entry(keysAfter, x)

\* C14 (backend and algorithm selection): a call with a positive limit runs
\* the remote variant of the current mode when the handle is set, touching
\* only "rate:"+id (sliding) or "bucket:"+id (leaky) and no local tracker, and
\* the local tracker of the current mode when it is not, touching only that
\* tracker and never the store.
C14_BackendSelection ==
    [][\A p \in Procs :
          proc'[p] # proc[p] =>
            LET pc == proc[p].pc
                pcAfter == proc'[p].pc
                u == proc[p].userID
            IN  /\ (pc \in {"idle", "done"} /\ proc'[p].limit > 0) =>
                      pcAfter \in (IF rdb
                                   THEN (IF GetMode = "leaky" THEN RedisLeakyPcs
                                         ELSE RedisSlidingPcs)
                                   ELSE (IF GetMode = "leaky" THEN LeakyPcs ELSE SlidingPcs))
                /\ pc \in RedisSlidingPcs =>
                      /\ pcAfter \in RedisSlidingPcs \cup {"done"}
                      /\ UNCHANGED <<localVars, bucketKeys>>
                      /\ OnlyKey(rateKeys, rateKeys', "rate:" \o u)
                /\ pc \in RedisLeakyPcs =>
                      /\ pcAfter \in RedisLeakyPcs \cup {"done"}
                      /\ UNCHANGED <<localVars, rateKeys>>
                      /\ OnlyKey(bucketKeys, bucketKeys', "bucket:" \o u)
                /\ pc \in SlidingPcs =>
                      /\ pcAfter \in SlidingPcs \cup {"done"}
                      /\ UNCHANGED <<leakyBuckets, remoteVars>>
                /\ pc \in LeakyPcs =>
                      /\ pcAfter \in LeakyPcs \cup {"done"}
                      /\ UNCHANGED <<userBuckets, userSlices, remoteVars>>]_vars

\* a call in leaky mode with the handle set has been admitted: the store holds
\* its bucket and no local tracker holds anything
C14_Witness ==
    \E p \in Procs :
        /\ Returned(p)
        /\ proc[p].ret
        /\ rdb
        /\ BucketKey(proc[p].userID) \in DOMAIN bucketKeys
        /\ rateKeys = EmptyMap
        /\ userBuckets = EmptyMap
        /\ userSlices = EmptyMap
        /\ leakyBuckets = EmptyMap

\* C15 (leaky dynamic reconfiguration, local): every decision is taken with
\* the capacity and the refill rate of the effective limit L2 of its own call:
\* the tokens held are refilled at L2 / 1000 a millisecond and clamped to L2
\* before one is consumed, whatever limit created the bucket.
C15_LeakyReconfigured ==
    [][\A p \in Procs :
          (proc[p].pc = "lk_crit" /\ proc'[p].pc = "done") =>
            LET u == proc[p].userID
                st == leakyBuckets[u]
                tokens == Refill(st.tokens, Elapsed(proc[p].now, st.lastMillis),
                                 RatePerMs(proc[p].limit), Capacity(proc[p].limit))
            IN  /\ proc'[p].ret = HasToken(tokens)
                /\ leakyBuckets'[u].tokens =
                        IF HasToken(tokens) THEN Consume(tokens) ELSE tokens]_vars

\* the least whole number of milliseconds in which a bucket of limit l gains
\* one token: ceil(1000 / l)
TokenWait(l) == (WindowMs + l - 1) \div l

\* C16 (leaky mode, local and distributed, fixed limit L, calls that do not
\* overlap): the first L decisions of a fresh identity admit, a decision
\* taken in the same millisecond after them denies, and a decision taken at
\* least ceil(1000 / L) ms after a denial, with no admission in between,
\* admits.
C16_PartialRecovery ==
    LET h == hist["a"]
        L == userConfig["a"]
    IN  /\ \A i \in DOMAIN h : i <= L => h[i].ret
        /\ \A i \in DOMAIN h : (i = L + 1 /\ h[i].now = h[1].now) => ~h[i].ret
        /\ \A i, j \in DOMAIN h :
                (/\ i < j
                 /\ ~h[i].ret
                 /\ h[j].now >= h[i].now + TokenWait(L)
                 /\ \A k \in DOMAIN h : (i < k /\ k < j) => ~h[k].ret)
                    => h[j].ret

\* the number of decisions before the j-th in h that admitted at an instant
\* within the window that ends at the instant of the j-th
Unexpired(h, j) ==
    Cardinality({i \in 1..(j - 1) : h[i].ret /\ h[i].now > h[j].now - WindowMs})

\* C17 (local sliding mode, calls that do not overlap): a call that finds k
\* unexpired admitted timestamps and carries the effective limit L2 is
\* admitted if and only if k < L2, whatever limits the earlier calls carried.
C17_SlidingDynamicLimit ==
    \A u \in Users : \A j \in DOMAIN hist[u] :
        hist[u][j].ret <=> Unexpired(hist[u], j) < hist[u][j].limit

\* a call is denied under a limit and, the limit raised, the next call at the
\* same instant is admitted; a later call under a lowered limit is denied
C17_Witness ==
    LET h == hist["a"]
    IN  \E j \in DOMAIN h :
            /\ j + 2 \in DOMAIN h
            /\ ~h[j].ret /\ h[j + 1].ret /\ ~h[j + 2].ret
            /\ h[j + 1].now = h[j].now
            /\ h[j + 1].limit > h[j].limit
            /\ h[j + 2].limit < h[j + 1].limit
            /\ Unexpired(h, j + 2) > 0

\* p is inside a call of RateLimit
InCall(p) == proc[p].pc \notin {"idle", "done"}

\* the callers that hold the sliding mutex, or the leaky mutex, of identity u
SlidingHolders(u) == {p \in Procs : proc[p].pc = "sl_crit" /\ proc[p].userID = u}
LeakyHolders(u) == {p \in Procs : proc[p].pc = "lk_crit" /\ proc[p].userID = u}

\* the mutexes that are locked, as pairs of an algorithm and an identity
LockedMutexes ==
    {<<"sliding", u>> : u \in {v \in DOMAIN userBuckets : userBuckets[v].locked}}
        \cup {<<"leaky", u>> : u \in {v \in DOMAIN leakyBuckets : leakyBuckets[v].locked}}

\* a mutex is locked only while a caller is between Lock and return, and the
\* locked mutexes are at most one for each caller inside a call
LocksReleased ==
    /\ \A u \in DOMAIN userBuckets : userBuckets[u].locked => SlidingHolders(u) # {}
    /\ \A u \in DOMAIN leakyBuckets : leakyBuckets[u].locked => LeakyHolders(u) # {}
    /\ Cardinality(LockedMutexes) <= Cardinality({p \in Procs : InCall(p)})

\* C18 (local mode, fair scheduling, concurrent callers, two identities, the
\* mode changing): every call of RateLimit that has started returns in the
\* end, a mutex is locked only while its caller has not returned, and the
\* callers never hold more mutexes than there are callers.
C18_Termination ==
    /\ \A p \in Procs : InCall(p) ~> Returned(p)
    /\ [](LocksReleased)

\* both callers have returned from calls for the same identity, one in each
\* mode, and both mutexes of the identity exist and are free
C18_Witness ==
    /\ \A p \in Procs : Returned(p) /\ proc[p].userID = "a"
    /\ Len(hist["a"]) >= 2
    /\ "a" \in DOMAIN userBuckets /\ ~userBuckets["a"].locked
    /\ "a" \in DOMAIN leakyBuckets /\ ~leakyBuckets["a"].locked

\* C19 (local mode, concurrent callers): for every identity at most one call
\* is between Lock and return in the sliding tracker, and at most one in the
\* leaky tracker, and while a call is there the mutex it took is held.
C19_MutualExclusion ==
    \A u \in Users :
        /\ Cardinality(SlidingHolders(u)) <= 1
        /\ Cardinality(LeakyHolders(u)) <= 1
        /\ SlidingHolders(u) # {} => userBuckets[u].locked
        /\ LeakyHolders(u) # {} => leakyBuckets[u].locked

\* one caller is in the critical section for an identity while the other
\* waits in Lock for the same identity and the same tracker
C19_Witness ==
    \E p, q \in Procs :
        /\ proc[p].userID = proc[q].userID
        /\ \/ proc[p].pc = "sl_crit" /\ proc[q].pc = "sl_lock"
           \/ proc[p].pc = "lk_crit" /\ proc[q].pc = "lk_lock"

\* the instance a caller took from each registry is the registered one
SameInstance(p) ==
    LET u == proc[p].userID
    IN  /\ proc[p].pc \in {"sl_slice", "sl_now", "sl_lock", "sl_crit"} =>
                u \in DOMAIN userBuckets /\ proc[p].mtx = userBuckets[u].ref
        /\ proc[p].pc \in {"sl_now", "sl_lock", "sl_crit"} =>
                u \in DOMAIN userSlices /\ proc[p].tsSlice = userSlices[u].ref
        /\ proc[p].pc \in {"lk_now", "lk_lock", "lk_crit"} =>
                u \in DOMAIN leakyBuckets /\ proc[p].st = leakyBuckets[u].ref

\* the entries of registry m are in m' with the same instances
Kept(m, mNext) == \A u \in DOMAIN m : u \in DOMAIN mNext /\ mNext[u].ref = m[u].ref

\* C20 (local mode, concurrent callers): every caller works on the instance
\* that its identity has in the registry of mutexes, of timestamp logs and of
\* buckets, and no step replaces or removes a registered instance.
C20_GetOrCreate ==
    /\ [](\A p \in Procs : SameInstance(p))
    /\ [][/\ Kept(userBuckets, userBuckets')
          /\ Kept(userSlices, userSlices')
          /\ Kept(leakyBuckets, leakyBuckets')]_vars

\* the first calls for an identity raced: the mutex registered is the one of
\* one caller, the timestamp log the one of the other, and both callers hold
\* the same two instances
C20_Witness ==
    \E p, q \in Procs :
        /\ p # q
        /\ proc[p].userID = proc[q].userID /\ hist[proc[p].userID] = <<>>
        /\ proc[p].pc = "sl_now" /\ proc[q].pc = "sl_now"
        /\ proc[p].mtx = p /\ proc[q].mtx = p
        /\ proc[p].tsSlice = q /\ proc[q].tsSlice = q

\* the log of identity u, empty before its first call
LogOf(u) == IF u \in DOMAIN userSlices THEN userSlices[u].ts ELSE <<>>

\* the limits of the last decision in h and of the admissions before it that
\* are not yet a window old at the last decision
LimitsInWindow(h) ==
    {h[j].limit : j \in {i \in DOMAIN h :
        i = Len(h) \/ (h[i].ret /\ h[i].now > h[Len(h)].now - WindowMs)}}

\* C21 as claimed (local sliding mode, one caller, the limit of each call
\* free): after a decision the log of the identity holds at most as many
\* timestamps as the limit of that decision.
C21_LogWithinLimit ==
    \A u \in Users : hist[u] # <<>> => Len(LogOf(u)) <= hist[u][Len(hist[u])].limit

\* C21 amended: after a decision the log of the identity holds at most as many
\* timestamps as the largest limit among that decision and the earlier
\* admissions still inside its window; that is the limit of the decision
\* when no admission inside the window had a larger limit.
C21_LogWithinWindowLimits ==
    \A u \in Users :
        hist[u] # <<>> => \E l \in LimitsInWindow(hist[u]) : Len(LogOf(u)) <= l

\* a call with a lowered limit was denied and left more timestamps in the log
\* than its limit
C21_Witness ==
    LET h == hist["a"]
    IN  /\ Len(h) >= 2
        /\ ~h[Len(h)].ret
        /\ h[Len(h)].limit < h[Len(h) - 1].limit
        /\ Len(LogOf("a")) > h[Len(h)].limit

\* C22 (local sliding mode, concurrent callers that read the clock before
\* Lock): the timestamps of the log of every identity are in non-decreasing
\* order.
C22_LogSorted ==
    \A u \in Users :
        \A i, j \in DOMAIN LogOf(u) : i < j => LogOf(u)[i] <= LogOf(u)[j]

\* C23 (every function of the package, SetUserLimit with 0 and negative
\* values): every override in the config store is positive.
C23_OverridesPositive == \A u \in DOMAIN userConfig : userConfig[u] > 0

\* the limit a call RateLimit(u, d), d > 0, is to hand to its tracker
Resolved(u, d) == IF u \in DOMAIN userConfig /\ userConfig[u] > 0 THEN userConfig[u] ELSE d

MarkersOf(keys, key) == IF key \in DOMAIN keys THEN keys[key].zset ELSE EmptyMap

\* what an admitted script run of p has to leave under its key: the unexpired
\* markers it found, one more marker with score now, and a fresh expiry
AdmittedEffect(p, found, left) ==
    /\ RateKey(proc[p].userID) \in DOMAIN left
    /\ \E m \in DOMAIN MarkersOf(left, RateKey(proc[p].userID)) \ DOMAIN found :
          /\ MarkersOf(left, RateKey(proc[p].userID))[m] = proc[p].now
          /\ Del(MarkersOf(left, RateKey(proc[p].userID)), m) = found
    /\ left[RateKey(proc[p].userID)].expireAt = clock + ExpireMs

\* what a denied script run of p has to leave under its key: the unexpired
\* markers it found, and the expiry that was there
DeniedEffect(p, before, found, left) ==
    /\ MarkersOf(left, RateKey(proc[p].userID)) = found
    /\ RateKey(proc[p].userID) \in DOMAIN left =>
          /\ RateKey(proc[p].userID) \in DOMAIN before
          /\ left[RateKey(proc[p].userID)].expireAt =
                before[RateKey(proc[p].userID)].expireAt
    /\ \A k \in DOMAIN before \ {RateKey(proc[p].userID)} :
          k \in DOMAIN left /\ left[k] = before[k]

\* C25 (distributed sliding mode, processes that share the store): a script
\* run that denies leaves the markers with a score above now - WindowMs and
\* the expiry of the key as they were and adds nothing; a script run that
\* admits leaves these markers and exactly one more, with score now, and sets
\* the expiry of the key to ExpireMs from the time of the run.
C25_ScriptEffect ==
    [][\A p \in Procs :
          RedisSlidingRun(p) =>
              IF proc'[p].ret
              THEN AdmittedEffect(p, ZRemRangeByScore(MarkersOf(rateKeys, RateKey(proc[p].userID)),
                                                      0, proc[p].now - WindowMs), rateKeys')
              ELSE DeniedEffect(p, rateKeys,
                                ZRemRangeByScore(MarkersOf(rateKeys, RateKey(proc[p].userID)),
                                                 0, proc[p].now - WindowMs), rateKeys')]_vars

\* the decisions of h that admitted
Admissions(h) == {j \in DOMAIN h : h[j].ret}

\* C26 (distributed sliding mode, processes that share the store, every call
\* so far in the first millisecond): the store holds one marker for every
\* admission of the identity, and no more calls were admitted than its limit.
C26_AdmissionsCounted ==
    \A u \in DOMAIN userConfig :
        clock = 0 =>
            /\ Cardinality(DOMAIN MarkersOf(rateKeys, RateKey(u))) =
                  Cardinality(Admissions(hist[u]))
            /\ Cardinality(Admissions(hist[u])) <= userConfig[u]

\* rateLimitMemorySliding(userID, limit), called as RateLimit calls it
CallMemorySliding(p, userID, limit) ==
    /\ proc[p].pc \in {"idle", "done"}
    /\ calls' = calls + 1
    /\ proc' = [proc EXCEPT ![p] = [Idle EXCEPT !.pc = "sl_mutex", !.userID = userID,
                                                !.limit = limit, !.nowNs = proc[p].nowNs]]
    /\ UNCHANGED <<clock, globalMode, userConfig, rdb, localVars, remoteVars, storeUp, hist>>

\* rateLimitRedisSliding(userID, limit), called as RateLimit calls it
CallRedisSliding(p, userID, limit) ==
    /\ proc[p].pc \in {"idle", "done"}
    /\ calls' = calls + 1
    /\ proc' = [proc EXCEPT ![p] = [Idle EXCEPT !.pc = "rs_now", !.userID = userID,
                                                !.limit = limit, !.nowNs = proc[p].nowNs]]
    /\ UNCHANGED <<clock, globalMode, userConfig, rdb, localVars, remoteVars, storeUp, hist>>

\* no call is running
Quiet == \A p \in Procs : ~InCall(p)

\* the decisions for "a" come in pairs: the local tracker's, then the store's
Paired == Len(hist["a"]) % 2 = 0

\* the two calls of a pair read the same clock value: time does not pass from
\* the local call's clock read to the remote call's
SameReading ==
    \/ Paired /\ \A p \in Procs : proc[p].pc \notin {"sl_lock", "sl_crit"}
    \/ \E p \in Procs : proc[p].pc = "rs_run"

\* the same sequence of calls that do not overlap, from any of the processes,
\* is given to the local tracker and to the distributed check: each call goes
\* to rateLimitMemorySliding first and then, with the same limit and the same
\* clock value, to rateLimitRedisSliding
NextEquiv ==
    \/ SameReading /\ Tick(Instants)
    \/ /\ calls < MaxSeqCalls
       /\ Quiet /\ Paired
       /\ \E p \in Procs, l \in 1..MaxLimit : CallMemorySliding(p, "a", l)
    \/ /\ Quiet /\ ~Paired
       /\ \E p \in Procs : CallRedisSliding(p, "a", hist["a"][Len(hist["a"])].limit)
    \/ \E p \in Procs : SlidingStep(p)
    \/ \E p \in Procs : RedisSlidingReadClock(p)
    \/ \E p \in Procs : RedisSlidingRun(p)

SpecEquiv == InitMode("sliding", TRUE) /\ [][NextEquiv]_vars

\* the number of timestamps t in the local log and of markers with score t
LogCount(u, t) == Cardinality({i \in DOMAIN LogOf(u) : LogOf(u)[i] = t})
MarkerCount(u, t) ==
    Cardinality({m \in DOMAIN MarkersOf(rateKeys, RateKey(u)) :
                    MarkersOf(rateKeys, RateKey(u))[m] = t})

\* C27 (sliding mode, the same calls given to the local tracker and to the
\* distributed check, calls that do not overlap, the store reachable and
\* empty at the start): the distributed check decides every call as the local
\* tracker does, and right after each call the scores of the markers in the
\* store are the timestamps of the local log.
C27_SameDecisions ==
    /\ \A k \in 1..(Len(hist["a"]) \div 2) : hist["a"][2 * k].ret = hist["a"][2 * k - 1].ret
    /\ (Quiet /\ Paired /\ hist["a"] # <<>> /\ clock = hist["a"][Len(hist["a"])].at) =>
          \A t \in Instants : MarkerCount("a", t) = LogCount("a", t)

\* the last decision of h that admitted, 0 when there is none
LastAdmission(h) == IF Admissions(h) = {} THEN 0
                    ELSE CHOOSE j \in Admissions(h) : \A i \in Admissions(h) : i <= j

\* C28 (distributed sliding mode, processes that share the store): an identity
\* has an entry in the store only after an admission, the entry expires
\* ExpireMs after the identity's most recent admission, whatever calls were
\* denied since, and it is gone once that instant has come.
C28_SelfCleaning ==
    \A u \in Users :
        RateKey(u) \in DOMAIN rateKeys =>
            /\ LastAdmission(hist[u]) # 0
            /\ rateKeys[RateKey(u)].expireAt = hist[u][LastAdmission(hist[u])].at + ExpireMs
            /\ clock < hist[u][LastAdmission(hist[u])].at + ExpireMs

\* a call was admitted, a later call was denied while the entry was there, and
\* ExpireMs after the admission the entry is gone
C28_Witness ==
    /\ LastAdmission(hist["a"]) # 0
    /\ \E k \in DOMAIN hist["a"] :
          /\ k > LastAdmission(hist["a"])
          /\ hist["a"][k].at > hist["a"][LastAdmission(hist["a"])].at
    /\ clock >= hist["a"][LastAdmission(hist["a"])].at + ExpireMs
    /\ RateKey("a") \notin DOMAIN rateKeys

\* a call that finds the bucket st at instant t is admitted
Admissible(st, t) ==
    HasToken(Refill(st.tokens, Elapsed(t, st.lastMillis), st.ratePerMs, st.capacity))

\* a denial of the local sliding tracker leaves in the log exactly the
\* timestamps of the log that its window still holds
SlidingDenialFrame(p) ==
    (SlidingDecide(p) /\ ~proc'[p].ret) =>
        userSlices'[proc[p].userID].ts =
            Prune(userSlices[proc[p].userID].ts, proc[p].now - WindowMs)

\* a denial of the local leaky tracker does not lower the tokens, and a call
\* at an instant from the denial on that the bucket would have admitted
\* before the denial is one that it admits after it
LeakyDenialFrame(p) ==
    (LeakyDecide(p) /\ ~proc'[p].ret) =>
        /\ FloatGeq(leakyBuckets'[proc[p].userID].tokens, leakyBuckets[proc[p].userID].tokens)
        /\ \A t \in RecoveryInstants :
              (t >= proc[p].now /\ Admissible(leakyBuckets[proc[p].userID], t)) =>
                  Admissible(leakyBuckets'[proc[p].userID], t)

\* C29 (local mode, one caller whose calls do not overlap): a denied call
\* takes no capacity.  In sliding mode it leaves the unexpired timestamps of
\* the log and appends none; in leaky mode it does not lower the tokens, and
\* it does not postpone the instant from which the next call is admitted.
C29_DenialKeepsCapacity ==
    [][\A p \in Procs : SlidingDenialFrame(p) /\ LeakyDenialFrame(p)]_vars

\* the clock values of the calls for key that run their script from instant t
\* on: t or later for a call that has not read its clock, and the value read
\* for a call that has
ReadingsFrom(key, t) ==
    {t} \cup {proc[p].now : p \in {q \in Procs : /\ proc[q].pc = "rs_run"
                                                 /\ RateKey(proc[q].userID) = key}}

\* C30 (distributed sliding mode, processes that share the store, clock
\* values read before the script runs): when the expiry of a key deletes it,
\* every marker it held has a score that every call running its script
\* afterwards prunes, score <= now - WindowMs, also a call that read its
\* clock before the expiry.
C30_ExpiryTransparent ==
    [][\A key \in DOMAIN rateKeys \ DOMAIN rateKeys' :
          \A m \in DOMAIN rateKeys[key].zset, now \in ReadingsFrom(key, clock') :
              rateKeys[key].zset[m] <= now - WindowMs]_vars

\* C31 (local leaky mode, concurrent callers that read the clock before
\* Lock, a clock that never goes back): no step lowers the lastMillis of the
\* bucket of an identity.
C31_LastMillisMonotone ==
    [][\A u \in DOMAIN leakyBuckets :
          leakyBuckets'[u].lastMillis >= leakyBuckets[u].lastMillis]_vars

\* goroutine p takes a step of a call that RateLimit handed to the tracker of mode
StepsIn(p, mode) == InCall(p) /\ proc[p].mode = mode /\ proc'[p] # proc[p]

\* C32 (local mode, concurrent callers, two identities, the mode switching):
\* no step of a call in sliding mode changes the leaky bucket of any
\* identity, no step of a call in leaky mode changes the sliding mutex or the
\* timestamp log of any identity, and a change of the mode changes no tracker
\* state.
C32_ModesDisjoint ==
    [][/\ \A p \in Procs : StepsIn(p, "sliding") => leakyBuckets' = leakyBuckets
       /\ \A p \in Procs :
             StepsIn(p, "leaky") => (userSlices' = userSlices /\ userBuckets' = userBuckets)
       /\ globalMode' # globalMode =>
             (userSlices' = userSlices /\ userBuckets' = userBuckets
                  /\ leakyBuckets' = leakyBuckets)]_vars

\* "a" was decided once in each mode: its timestamp log holds the admission
\* of sliding mode, its bucket exists, and no call is running
C32_Witness ==
    /\ \A p \in Procs : ~InCall(p)
    /\ Len(hist["a"]) = 2
    /\ "a" \in DOMAIN userSlices /\ userSlices["a"].ts # <<>>
    /\ "a" \in DOMAIN leakyBuckets

====
